---- MODULE Spec2Model ----
(***************************************************************************)
(* Recouvra+ REST backend: invoice/payment reconciliation                  *)
(* (controllers/paymentController.js, controllers/invoiceController.js)    *)
(* and the authentication middleware (middleware/authMiddleware.js) with   *)
(* the routes behind it, the auth router (controllers/authController.js),  *)
(* updateUser and deleteUser (controllers/userController.js) and           *)
(* deleteClient (controllers/clientController.js).                         *)
(*                                                                         *)
(* Every request handler is an async function: between two awaits the      *)
(* handler runs alone, at every await (a store round trip) other requests  *)
(* may run.  One action of the model is one store round trip together with *)
(* the synchronous code that follows the previous one.                     *)
(*                                                                         *)
(* Amounts are JSON numbers, modelled as naturals (minor currency units).  *)
(* A note is modelled by its length.                                       *)
(***************************************************************************)
EXTENDS Integers, Sequences, FiniteSets, TLC

\* ------------------------------------------------------------------ bounds
MaxInvoices == 1
MaxAmount == 2
MaxOps == 3
NumPaySlots == 2
NumUsers == 2
MaxTime == 2
MaxClients == 1
NumRegSlots == 2
MaxDocs == 3
NumInvSlots == 2
MaxNumbers == 2

\* ------------------------------------------------------- program constants
NoteMaxLen == 500
CheckSuffixLen == 16
CheckDefaultNoteLen == 35

VARIABLES invoices, payments, nextInvoice, pay, upd, ops, reply,
          users, now, web, clients, nextClient, reg, ureply, nextUser,
          invoiceDocs, nextDoc, recoveryActions, creq, renum, ireply

payVars == <<invoices, payments, nextInvoice, pay, upd, ops, reply>>
authVars == <<users, now, web, clients, nextClient>>
regVars == <<reg, ureply, nextUser>>
invVars == <<invoiceDocs, nextDoc, recoveryActions, creq, renum, ireply>>

\* --------------------------------------------------------------- documents
InvoiceIds == 1..MaxInvoices
\* 0 stands for an id string that is not a well-formed ObjectId
MalformedId == 0
Statuses == {"unpaid", "partially_paid", "paid", "overdue"}
Methods == {"cash", "check", "transfer"}
\* a method string outside the enum
BadMethod == "card"
PaySlots == 1..NumPaySlots
\* note lengths a request may carry: none, long but valid, too long
NoteLens == {0, 490, 501}

\* what findById yields for an id with no document
NoDoc == [exists |-> FALSE, amount |-> 0, amountPaid |-> 0, status |-> "unpaid"]

\* Invoice schema defaults applied by Invoice.create
NewInvoice(amount) ==
  [exists |-> TRUE, amount |-> amount, amountPaid |-> 0, status |-> "unpaid"]

findById(id) == IF id \in InvoiceIds THEN invoices[id] ELSE NoDoc

\* ------------------------------------------------------------ HTTP replies
\* the request body a reply answers
NoReq == [invoice |-> 0, amount |-> 0, method |-> "none", note |-> 0]
NoReply == [req |-> NoReq, code |-> 0, errs |-> <<>>, balance |-> 0, status |-> "none"]
Reply(code, errs, balance, status) ==
  [req |-> NoReq, code |-> code, errs |-> errs, balance |-> balance, status |-> status]
replyTo(req, r) == [r EXCEPT !.req = req]

\* thrown errors, as errorHandler tells them apart
PlainError == [name |-> "Error", code |-> 0]
ValidationError == [name |-> "ValidationError", code |-> 0]
DocumentNotFoundError == [name |-> "DocumentNotFoundError", code |-> 0]
\* new HttpError(message, errorCode): the code lands in err.code
HttpError(errorCode) == [name |-> "Error", code |-> errorCode]
DuplicateKeyCode == 11000

\* errorHandler: the status already set on the response, 500 if none was
\* set; 400 for a duplicate key error and for a Mongoose ValidationError
errorStatus(resStatus, err) ==
  IF err.name = "ValidationError" THEN 400
  ELSE IF err.code = DuplicateKeyCode THEN 400
  ELSE IF err.name = "CastError" THEN 404
  ELSE IF resStatus = 200 THEN 500
  ELSE resStatus

errorHandler(resStatus, err, errs) ==
  Reply(errorStatus(resStatus, err), errs, 0, "none")

\* --------------------------------------------------------- createPayment
\* createPaymentValidator stopping at the first chain that fails
createPaymentValidator_bail(invoiceId, amount, method, noteLen) ==
  IF invoiceId = MalformedId THEN <<"InvalidInvoiceId">>
  ELSE IF amount < 1 THEN <<"InvalidAmount">>
  ELSE IF method \notin Methods THEN <<"InvalidMethod">>
  ELSE IF noteLen > NoteMaxLen THEN <<"InvalidNote">>
  ELSE <<>>

\* createPaymentValidator: every chain runs, all failures are collected
createPaymentValidator(invoiceId, amount, method, noteLen) ==
  (IF invoiceId = MalformedId THEN <<"InvalidInvoiceId">> ELSE <<>>)
  \o (IF amount >= 1 THEN <<>> ELSE <<"InvalidAmount">>)
  \o (IF method \in Methods THEN <<>> ELSE <<"InvalidMethod">>)
  \o (IF noteLen <= NoteMaxLen THEN <<>> ELSE <<"InvalidNote">>)

\* paymentStrategies[method].process: the note the strategy hands back
processNote(method, noteLen) ==
  IF method = "check"
    THEN (IF noteLen > 0 THEN noteLen + CheckSuffixLen ELSE CheckDefaultNoteLen)
    ELSE noteLen

\* note stored by Payment.create: processedPayment.note || note
storedNote(method, noteLen) ==
  IF processNote(method, noteLen) > 0 THEN processNote(method, noteLen) ELSE noteLen

\* status recomputed after invoice.amountPaid += amount
newStatus(amountPaid, amount, oldStatus) ==
  IF amountPaid >= amount THEN "paid"
  ELSE IF amountPaid > 0 THEN "partially_paid"
  ELSE oldStatus

IdlePay ==
  [pc |-> "idle", req |-> NoReq, snap |-> NoDoc, payId |-> 0]

\* request arrives: validationResult, then Invoice.findById
PayStart(p, invoiceId, amount, method, noteLen) ==
  /\ pay[p].pc = "idle"
  /\ ops < MaxOps
  /\ ops' = ops + 1
  /\ LET errs == createPaymentValidator(invoiceId, amount, method, noteLen)
         req == [invoice |-> invoiceId, amount |-> amount, method |-> method,
                 note |-> noteLen]
     IN IF errs # <<>>
          THEN /\ reply' = replyTo(req, errorHandler(400, PlainError, errs))
               /\ UNCHANGED pay
          ELSE /\ pay' = [pay EXCEPT ![p] =
                     [IdlePay EXCEPT !.pc = "found", !.req = req,
                                     !.snap = findById(invoiceId)]]
               /\ UNCHANGED reply
  /\ UNCHANGED <<invoices, payments, nextInvoice, upd>>

\* checkInvoice reporting the invoice total in place of the remaining balance
checkInvoice_reportsTotal(r) ==
  LET remainingBalance == r.snap.amount - r.snap.amountPaid
  IN IF ~r.snap.exists THEN errorHandler(404, PlainError, <<"NotFound">>)
     ELSE IF r.snap.status = "paid"
       THEN errorHandler(400, PlainError, <<"AlreadySettled">>)
     ELSE IF r.req.amount > remainingBalance
       THEN [errorHandler(400, PlainError, <<"ExceedsBalance">>)
               EXCEPT !.balance = r.snap.amount]
     ELSE IF storedNote(r.req.method, r.req.note) > NoteMaxLen
       THEN errorHandler(200, ValidationError, <<"NoteTooLong">>)
     ELSE NoReply

\* checkInvoice testing the balance before the paid status
checkInvoice_balanceFirst(r) ==
  LET remainingBalance == r.snap.amount - r.snap.amountPaid
  IN IF ~r.snap.exists THEN errorHandler(404, PlainError, <<"NotFound">>)
     ELSE IF r.req.amount > remainingBalance
       THEN [errorHandler(400, PlainError, <<"ExceedsBalance">>)
               EXCEPT !.balance = remainingBalance]
     ELSE IF r.snap.status = "paid"
       THEN errorHandler(400, PlainError, <<"AlreadySettled">>)
     ELSE IF storedNote(r.req.method, r.req.note) > NoteMaxLen
       THEN errorHandler(200, ValidationError, <<"NoteTooLong">>)
     ELSE NoReply

\* the checks on the invoice that was read; NoReply when all pass
checkInvoice(r) ==
  LET remainingBalance == r.snap.amount - r.snap.amountPaid
  IN IF ~r.snap.exists THEN errorHandler(404, PlainError, <<"NotFound">>)
     ELSE IF r.snap.status = "paid"
       THEN errorHandler(400, PlainError, <<"AlreadySettled">>)
     ELSE IF r.req.amount > remainingBalance
       THEN [errorHandler(400, PlainError, <<"ExceedsBalance">>)
               EXCEPT !.balance = remainingBalance]
     ELSE IF storedNote(r.req.method, r.req.note) > NoteMaxLen
       THEN errorHandler(200, ValidationError, <<"NoteTooLong">>)
     ELSE NoReply

\* the checks, then Payment.create
PayCreate(p) ==
  /\ pay[p].pc = "found"
  /\ LET r == pay[p]
     IN IF checkInvoice(r) # NoReply
          THEN /\ reply' = replyTo(r.req, checkInvoice(r))
               /\ pay' = [pay EXCEPT ![p] = IdlePay]
               /\ UNCHANGED payments
          ELSE /\ payments' = Append(payments,
                    [invoice |-> r.req.invoice, amount |-> r.req.amount,
                     method |-> r.req.method])
               /\ pay' = [pay EXCEPT ![p].pc = "created",
                                     ![p].payId = Len(payments) + 1]
               /\ UNCHANGED reply
  /\ UNCHANGED <<invoices, nextInvoice, upd, ops>>

\* invoice.amountPaid += amount, the status rule, invoice.save(), the reply
PaySave_compensate(p) ==
  /\ pay[p].pc = "created"
  /\ LET r == pay[p]
         amountPaid == r.snap.amountPaid + r.req.amount
         status == newStatus(amountPaid, r.snap.amount, r.snap.status)
     IN IF ~invoices[r.req.invoice].exists
          THEN /\ reply' = replyTo(r.req, errorHandler(200, DocumentNotFoundError, <<"DocumentNotFound">>))
               /\ payments' = SubSeq(payments, 1, r.payId - 1)
                                \o SubSeq(payments, r.payId + 1, Len(payments))
               /\ UNCHANGED invoices
          ELSE /\ invoices' = [invoices EXCEPT
                    ![r.req.invoice].amountPaid = amountPaid,
                    ![r.req.invoice].status =
                       IF status # r.snap.status THEN status ELSE @]
               /\ reply' = replyTo(r.req,
                     Reply(201, <<>>, r.snap.amount - amountPaid, status))
               /\ UNCHANGED payments
  /\ pay' = [pay EXCEPT ![p] = IdlePay]
  /\ UNCHANGED <<nextInvoice, upd, ops>>
PaySave(p) ==
  /\ pay[p].pc = "created"
  /\ LET r == pay[p]
         amountPaid == r.snap.amountPaid + r.req.amount
         status == newStatus(amountPaid, r.snap.amount, r.snap.status)
     IN IF ~invoices[r.req.invoice].exists
          THEN /\ reply' = replyTo(r.req, errorHandler(200, DocumentNotFoundError, <<"DocumentNotFound">>))
               /\ UNCHANGED invoices
          ELSE /\ invoices' = [invoices EXCEPT
                    ![r.req.invoice].amountPaid = amountPaid,
                    ![r.req.invoice].status =
                       IF status # r.snap.status THEN status ELSE @]
               /\ reply' = replyTo(r.req,
                     Reply(201, <<>>, r.snap.amount - amountPaid, status))
  /\ pay' = [pay EXCEPT ![p] = IdlePay]
  /\ UNCHANGED <<payments, nextInvoice, upd, ops>>

\* ---------------------------------------------------------- invoice CRUD
\* createInvoice with a request that passes createInvoiceValidator
createInvoice(amount) ==
  /\ nextInvoice <= MaxInvoices
  /\ ops < MaxOps
  /\ ops' = ops + 1
  /\ invoices' = [invoices EXCEPT ![nextInvoice] = NewInvoice(amount)]
  /\ nextInvoice' = nextInvoice + 1
  /\ UNCHANGED <<payments, pay, upd, reply>>

\* no amount / no status in the request body
NoAmount == -1
NoStatus == "none"
IdleUpd ==
  [pc |-> "idle", invoice |-> 0, amount |-> NoAmount, status |-> NoStatus,
   snap |-> NoDoc]

\* updateInvoice: validationResult, then Invoice.findById
UpdStart(invoiceId, amount, status) ==
  /\ upd.pc = "idle"
  /\ ops < MaxOps
  /\ ops' = ops + 1
  /\ upd' = [pc |-> "found", invoice |-> invoiceId, amount |-> amount,
             status |-> status, snap |-> findById(invoiceId)]
  /\ UNCHANGED <<invoices, payments, nextInvoice, pay, reply>>

\* the assignments to the document that was read, then invoice.save():
\* save writes the paths whose value differs from the value that was read
UpdSave ==
  /\ upd.pc = "found"
  /\ upd' = IdleUpd
  /\ IF upd.snap.exists /\ invoices[upd.invoice].exists
       THEN invoices' = [invoices EXCEPT
              ![upd.invoice].amount =
                 IF upd.amount # NoAmount /\ upd.amount # upd.snap.amount
                   THEN upd.amount ELSE @,
              ![upd.invoice].status =
                 IF upd.status # NoStatus /\ upd.status # upd.snap.status
                   THEN upd.status ELSE @]
       ELSE UNCHANGED invoices
  /\ UNCHANGED <<payments, nextInvoice, pay, ops, reply>>

\* deleteInvoice: findById, then deleteOne on the document that was found
deleteInvoice(invoiceId) ==
  /\ invoices[invoiceId].exists
  /\ ops < MaxOps
  /\ ops' = ops + 1
  /\ invoices' = [invoices EXCEPT ![invoiceId] = NoDoc]
  /\ UNCHANGED <<payments, nextInvoice, pay, upd, reply>>

\* ------------------------------------------------------ authentication
UserIds == 1..NumUsers
Roles == {"agent", "manager", "admin"}
\* no role in a request body, a role string outside the enum
NoRole == "none"
BadRole == "root"

\* an email address: its letters up to case (local) and whether it is written
\* with capital letters; local 0 is a string that is no email address
Email(local, caps) == [local |-> local, caps |-> caps]
NoEmail == Email(0, FALSE)
\* the lowercase setter of userSchema.email
toLowerCase(email) == [email EXCEPT !.caps = FALSE]

\* passwords by their length class: none, below minlength, two valid ones
NoPassword == ""
ShortPassword == "abc"
Passwords == {"secret-1", "secret-2"}
\* the password of the users the store starts with
SeedPassword == "secret-1"
\* the pre-save hook: bcrypt.hash(password, salt)
hash(password) == [bcrypt |-> password]
\* userSchema.methods.matchPassword: bcrypt.compare(entered, this.password)
matchPassword(entered, stored) == stored = hash(entered)

NoUser ==
  [exists |-> FALSE, role |-> "agent", email |-> NoEmail,
   password |-> hash(NoPassword)]
UserDoc(role, email, password) ==
  [exists |-> TRUE, role |-> role, email |-> email, password |-> password]

\* the fields of a User document and the ones a query returns
UserFields == {"_id", "name", "email", "password", "role", "createdAt", "updatedAt"}
\* password is declared select: false
defaultSelect == UserFields \ {"password"}
\* .select('-password')
selectWithoutPassword == UserFields \ {"password"}
\* .select('+password')
selectWithPassword == UserFields
\* the four fields register, login and updateUser copy into their reply
publicFields == {"_id", "name", "email", "role"}

\* the jwt cookie of a request: absent, not a JWT at all, or a JWT with the
\* user id it carries, its expiry and whether JWT_SECRET signed it
NoToken == [kind |-> "absent", userId |-> 0, exp |-> 0, signed |-> FALSE]
GarbageToken == [kind |-> "malformed", userId |-> 0, exp |-> 0, signed |-> FALSE]
Jwt(userId, exp, signed) ==
  [kind |-> "jwt", userId |-> userId, exp |-> exp, signed |-> signed]
Tokens ==
  {NoToken, GarbageToken}
    \cup {Jwt(u, e, g) : u \in UserIds, e \in 0..(MaxTime + 1), g \in BOOLEAN}

\* jwt.verify(token, JWT_SECRET): TRUE when it returns the payload
verify(token, time) ==
  /\ token.kind = "jwt"
  /\ token.signed
  /\ time < token.exp

\* User.findById(id).select('-password')
findUser(id) == IF id \in UserIds THEN users[id] ELSE NoUser

\* the routes behind protect, by router and kind of operation
OpenRoutes ==
  {"auth.me", "auth.logout", "clients.read", "invoices.read", "payments.read",
   "recovery.read"}
WriteRoutes ==
  {"clients.create", "clients.update", "invoices.create", "invoices.update",
   "payments.create", "recovery.create", "recovery.update"}
DeleteRoutes == {"clients.delete", "invoices.delete", "recovery.delete"}
StatsRoutes == {"stats.read"}
AdminRoutes == {"users.list", "users.update", "users.delete"}
UserGetRoutes == {"users.get"}
Routes ==
  OpenRoutes \cup WriteRoutes \cup DeleteRoutes \cup StatsRoutes
    \cup AdminRoutes \cup UserGetRoutes

\* the roles handed to authorize(...) on a route; the open routes mount no
\* authorize and admit every authenticated user
authorizeRoles(route) ==
  IF route \in WriteRoutes THEN {"agent", "manager"}
  ELSE IF route \in DeleteRoutes THEN {"manager", "admin"}
  ELSE IF route \in StatsRoutes THEN {"manager", "admin"}
  ELSE IF route \in AdminRoutes THEN {"admin"}
  ELSE IF route \in UserGetRoutes THEN {"admin", "manager"}
  ELSE Roles

\* the messages of the errors the middleware and the handlers throw
NoTokenMsg == "Not authorized, no token"
TokenInvalidMsg == "Not authorized, token invalid"
NotAuthorizedMsg == "Not authorized"
RoleNotAuthorizedMsg == "Role is not authorized to access this resource"
UserNotFoundMsg == "User not found"
SelfDeletionMsg == "Cannot delete your own account"
ValidationMsg == "validation errors"
StoreFailureMsg == "store failure"

\* authorize(...roles)(req): what the middleware does with req.user
authorize_noRoleCheck(user, roles) ==
  IF ~user.exists THEN "noUser"
  ELSE "next"
authorize(user, roles) ==
  IF ~user.exists THEN "noUser"
  ELSE IF user.role \notin roles THEN "denied"
  ELSE "next"

\* a request on a protect-guarded route; at is the time protect read its
\* cookie, target the :id of the route, role the role of its body, authz
\* what authorize did with the request, fault whether the store failed
\* under it
IdleWeb ==
  [pc |-> "idle", token |-> NoToken, at |-> 0, user |-> NoUser,
   handlerRan |-> FALSE, code |-> 0, route |-> "auth.me", target |-> 0,
   authz |-> "none", fault |-> FALSE, msg |-> "", body |-> {},
   idFields |-> {}, role |-> NoRole]

\* protect up to its first await: the cookie, jwt.verify; a throw reaches
\* errorHandler with no status set on the response
protect_revoked(token, route, target) ==
  /\ web.pc \in {"idle", "done"}
  /\ route = "clients.create" => nextClient <= MaxClients
  /\ LET req == [IdleWeb EXCEPT !.token = token, !.at = now, !.route = route,
                   !.target = target]
     IN IF token.kind = "absent"
          THEN web' = [req EXCEPT !.pc = "done", !.msg = NoTokenMsg,
                         !.code = errorStatus(200, HttpError(401))]
          ELSE IF ~verify(token, now)
                    \/ (ureply.op = "logout" /\ ureply.user = token.userId)
            THEN web' = [req EXCEPT !.pc = "done", !.msg = TokenInvalidMsg,
                           !.code = errorStatus(200, HttpError(401))]
            ELSE web' = [req EXCEPT !.pc = "protect"]
  /\ UNCHANGED <<users, now, clients, nextClient>>
protect(token, route, target) ==
  /\ web.pc \in {"idle", "done"}
  /\ route = "clients.create" => nextClient <= MaxClients
  /\ LET req == [IdleWeb EXCEPT !.token = token, !.at = now, !.route = route,
                   !.target = target]
     IN IF token.kind = "absent"
          THEN web' = [req EXCEPT !.pc = "done", !.msg = NoTokenMsg,
                         !.code = errorStatus(200, HttpError(401))]
          ELSE IF ~verify(token, now)
            THEN web' = [req EXCEPT !.pc = "done", !.msg = TokenInvalidMsg,
                           !.code = errorStatus(200, HttpError(401))]
            ELSE web' = [req EXCEPT !.pc = "protect"]
  /\ UNCHANGED <<users, now, clients, nextClient>>

\* the roles of the users when their cookies were set: one admin, the
\* others with the role register gives
IssuedRole(u) == IF u = 1 THEN "admin" ELSE "agent"

\* the middleware after protect's next(), with authorize reading the role
\* the user had when the cookie was set
afterProtect_issuedRole(w) ==
  IF w.route \in OpenRoutes
    THEN [w EXCEPT !.pc = "handler"]
    ELSE LET outcome == authorize([w.user EXCEPT !.role = IssuedRole(w.token.userId)],
                                authorizeRoles(w.route))
         IN IF outcome = "noUser"
              THEN [w EXCEPT !.pc = "done", !.authz = outcome,
                      !.msg = NotAuthorizedMsg,
                      !.code = errorStatus(200, HttpError(401))]
              ELSE IF outcome = "denied"
                THEN [w EXCEPT !.pc = "done", !.authz = outcome,
                        !.msg = RoleNotAuthorizedMsg,
                        !.code = errorStatus(200, HttpError(403))]
                ELSE [w EXCEPT !.pc = "handler", !.authz = outcome]
\* the middleware after protect's next(): authorize where the route mounts
\* it, up to the first await of the handler
afterProtect(w) ==
  IF w.route \in OpenRoutes
    THEN [w EXCEPT !.pc = "handler"]
    ELSE LET outcome == authorize(w.user, authorizeRoles(w.route))
         IN IF outcome = "noUser"
              THEN [w EXCEPT !.pc = "done", !.authz = outcome,
                      !.msg = NotAuthorizedMsg,
                      !.code = errorStatus(200, HttpError(401))]
              ELSE IF outcome = "denied"
                THEN [w EXCEPT !.pc = "done", !.authz = outcome,
                        !.msg = RoleNotAuthorizedMsg,
                        !.code = errorStatus(200, HttpError(403))]
                ELSE [w EXCEPT !.pc = "handler", !.authz = outcome]

\* protect after User.findById: req.user is set, then next() or the throw,
\* which the catch block replaces by its own
protectResolve ==
  /\ web.pc = "protect"
  /\ LET user == findUser(web.token.userId)
     IN IF ~user.exists
          THEN web' = [web EXCEPT !.pc = "done", !.msg = TokenInvalidMsg,
                         !.code = errorStatus(200, HttpError(401))]
          ELSE web' = afterProtect([web EXCEPT !.user = user,
                                      !.idFields = selectWithoutPassword])
  /\ UNCHANGED <<users, now, clients, nextClient>>

\* protect when User.findById rejects: the catch block throws its own error
protectFault ==
  /\ web.pc = "protect"
  /\ web' = [web EXCEPT !.pc = "done", !.fault = TRUE, !.msg = TokenInvalidMsg,
               !.code = errorStatus(200, HttpError(401))]
  /\ UNCHANGED <<users, now, clients, nextClient>>

\* getMe: the route handler behind protect
getMe_withPassword ==
  /\ web.pc = "handler"
  /\ web.route = "auth.me"
  /\ web' = [web EXCEPT !.pc = "done", !.handlerRan = TRUE, !.code = 200,
               !.body = IF findUser(web.token.userId).exists
                          THEN selectWithPassword ELSE {}]
  /\ UNCHANGED <<users, now, clients, nextClient>>
getMe ==
  /\ web.pc = "handler"
  /\ web.route = "auth.me"
  /\ web' = [web EXCEPT !.pc = "done", !.handlerRan = TRUE, !.code = 200,
               !.body = IF findUser(web.token.userId).exists
                          THEN defaultSelect ELSE {}]
  /\ UNCHANGED <<users, now, clients, nextClient>>

\* createClient: validationResult, Client.create
createClient(valid) ==
  /\ web.pc = "handler"
  /\ web.route = "clients.create"
  /\ IF ~valid
       THEN /\ web' = [web EXCEPT !.pc = "done", !.handlerRan = TRUE,
                         !.msg = ValidationMsg,
                         !.code = errorStatus(400, PlainError)]
            /\ UNCHANGED <<clients, nextClient>>
       ELSE /\ web' = [web EXCEPT !.pc = "done", !.handlerRan = TRUE,
                         !.code = 201]
            /\ clients' = clients \cup {nextClient}
            /\ nextClient' = nextClient + 1
  /\ UNCHANGED <<users, now>>

\* deleteUser up to user.deleteOne(): User.findById(req.params.id), the
\* not-found and the own-account checks
deleteUserFind_noSelfCheck ==
  /\ web.pc = "handler"
  /\ web.route = "users.delete"
  /\ LET user == findUser(web.target)
     IN IF ~user.exists
          THEN web' = [web EXCEPT !.pc = "done", !.handlerRan = TRUE,
                         !.msg = UserNotFoundMsg,
                         !.code = errorStatus(404, PlainError)]
          ELSE web' = [web EXCEPT !.pc = "deleteOne", !.handlerRan = TRUE]
  /\ UNCHANGED <<users, now, clients, nextClient>>
deleteUserFind ==
  /\ web.pc = "handler"
  /\ web.route = "users.delete"
  /\ LET user == findUser(web.target)
     IN IF ~user.exists
          THEN web' = [web EXCEPT !.pc = "done", !.handlerRan = TRUE,
                         !.msg = UserNotFoundMsg,
                         !.code = errorStatus(404, PlainError)]
          ELSE IF web.target = web.token.userId
            THEN web' = [web EXCEPT !.pc = "done", !.handlerRan = TRUE,
                           !.msg = SelfDeletionMsg,
                           !.code = errorStatus(400, PlainError)]
            ELSE web' = [web EXCEPT !.pc = "deleteOne", !.handlerRan = TRUE]
  /\ UNCHANGED <<users, now, clients, nextClient>>

\* deleteUser: user.deleteOne() and the reply
deleteUserRemove ==
  /\ web.pc = "deleteOne"
  /\ users' = [users EXCEPT ![web.target] = NoUser]
  /\ web' = [web EXCEPT !.pc = "done", !.code = 200]
  /\ UNCHANGED <<now, clients, nextClient>>

\* updateUser up to user.save(): User.findById(req.params.id), the
\* not-found check, the fields of the body; the body holds role at most
updateUserFind(role) ==
  /\ web.pc = "handler"
  /\ web.route = "users.update"
  /\ LET user == findUser(web.target)
     IN IF ~user.exists
          THEN web' = [web EXCEPT !.pc = "done", !.handlerRan = TRUE,
                         !.msg = UserNotFoundMsg,
                         !.code = errorStatus(404, PlainError)]
          ELSE web' = [web EXCEPT !.pc = "save", !.handlerRan = TRUE,
                         !.role = role]
  /\ UNCHANGED <<users, now, clients, nextClient>>

\* updateUser: if (role) user.role = role, user.save() with the enum of
\* userSchema.role, the reply
updateUserSave ==
  /\ web.pc = "save"
  /\ IF web.role \notin Roles \cup {NoRole}
       THEN /\ web' = [web EXCEPT !.pc = "done", !.msg = ValidationMsg,
                         !.code = errorStatus(200, ValidationError)]
            /\ UNCHANGED users
       ELSE IF ~users[web.target].exists
         THEN /\ web' = [web EXCEPT !.pc = "done", !.msg = StoreFailureMsg,
                           !.code = errorStatus(200, DocumentNotFoundError)]
              /\ UNCHANGED users
         ELSE /\ users' = [users EXCEPT ![web.target].role =
                             IF web.role = NoRole THEN @ ELSE web.role]
              /\ web' = [web EXCEPT !.pc = "done", !.code = 200,
                           !.body = publicFields]
  /\ UNCHANGED <<now, clients, nextClient>>

\* the handler of any other route is entered; what it does to its own
\* collection is not part of this pipeline
routeHandler ==
  /\ web.pc = "handler"
  /\ web.route \notin {"auth.me", "auth.logout", "clients.create",
                       "users.update", "users.delete"}
  /\ web' = [web EXCEPT !.pc = "done", !.handlerRan = TRUE, !.code = 200]
  /\ UNCHANGED <<users, now, clients, nextClient>>

\* a store call of a handler rejects: asyncHandler hands the error to
\* errorHandler
handlerFault ==
  /\ web.pc \in {"handler", "deleteOne", "save"}
  /\ web.route # "auth.logout"
  /\ web' = [web EXCEPT !.pc = "done", !.handlerRan = TRUE, !.fault = TRUE,
               !.msg = StoreFailureMsg, !.code = errorStatus(200, PlainError)]
  /\ UNCHANGED <<users, now, clients, nextClient>>

\* time passes
Tick ==
  /\ now < MaxTime
  /\ now' = now + 1
  /\ UNCHANGED <<users, web, clients, nextClient>>

\* ------------------------------------------------- registration and login
RegSlots == 1..NumRegSlots
\* the email, password and role fields a request body can carry
EmailInputs == {NoEmail} \cup {Email(n, c) : n \in UserIds, c \in BOOLEAN}
RegisterPasswords == {ShortPassword, SeedPassword}
RegisterRoles == {NoRole, "manager", "admin", BadRole}
LoginPasswords == {NoPassword} \cup Passwords

EmailInUseMsg == "Email already in use"
DuplicateValueMsg == "Duplicate value for field: email"
InvalidLoginMsg == "Invalid email or password"

\* generateToken(res, userId): the cookie it sets; its thirty days end after
\* the time the model spans
generateToken(userId) == Jwt(userId, MaxTime + 1, TRUE)

\* the reply of the last register or login: status, message, the user id of
\* the jwt cookie it set (0: none), the fields of its body, and the id and
\* role of the user it reports
NoAuthReply ==
  [op |-> "none", code |-> 0, msg |-> "", cookie |-> 0, body |-> {},
   user |-> 0, role |-> NoRole]
AuthFailure(op, code, msg) ==
  [NoAuthReply EXCEPT !.op = op, !.code = code, !.msg = msg,
     !.body = IF msg = ValidationMsg THEN {"errors"} ELSE {"message", "stack"}]
AuthSuccess(op, code, id, fields) ==
  [op |-> op, code |-> code, msg |-> "", cookie |-> generateToken(id).userId,
   body |-> fields, user |-> id, role |-> users'[id].role]

\* registerValidator: name, email, password and the optional role
registerValidator(nameOk, email, password, role) ==
  /\ nameOk
  /\ email # NoEmail
  /\ password \notin {NoPassword, ShortPassword}
  /\ role \in {NoRole} \cup Roles

\* loginValidator: email and password
loginValidator(email, password) ==
  /\ email # NoEmail
  /\ password # NoPassword

\* User.findOne({ email }): the id of the user with that email, 0 if none;
\* the query value passes the lowercase setter of the schema
findOne(email) ==
  IF \E u \in UserIds : users[u].exists /\ users[u].email = toLowerCase(email)
    THEN CHOOSE u \in UserIds :
           users[u].exists /\ users[u].email = toLowerCase(email)
    ELSE 0

IdleReg ==
  [pc |-> "idle", email |-> NoEmail, password |-> NoPassword,
   role |-> NoRole, found |-> FALSE]
Pending == {s \in RegSlots : reg[s].pc # "idle"}

\* register up to User.findOne: validationResult, the fields read from the
\* body, the query
RegStart(s, nameOk, email, password, role) ==
  /\ reg[s].pc = "idle"
  /\ nextUser + Cardinality(Pending) <= NumUsers
  /\ IF ~registerValidator(nameOk, email, password, role)
       THEN /\ ureply' = AuthFailure("register", 400, ValidationMsg)
            /\ UNCHANGED reg
       ELSE /\ reg' = [reg EXCEPT ![s] =
                         [pc |-> "found", email |-> email,
                          password |-> password, role |-> role,
                          found |-> findOne(email) # 0]]
            /\ UNCHANGED ureply
  /\ UNCHANGED <<users, nextUser>>

\* new User({ name, email, password }): role takes the schema default,
\* email passes the lowercase setter, the pre-save hook hashes the password
newUser(r) == UserDoc("agent", toLowerCase(r.email), hash(r.password))

\* the unique index on email rejects a document whose email is taken
uniqueEmail_noIndex(doc) == TRUE
uniqueEmail(doc) ==
  \A u \in UserIds : users[u].exists => users[u].email # doc.email

\* register after User.findOne: the in-use check, user.save(), the cookie
\* and the reply
RegSave(s) ==
  /\ reg[s].pc = "found"
  /\ reg' = [reg EXCEPT ![s] = IdleReg]
  /\ IF reg[s].found
       THEN /\ ureply' = AuthFailure("register",
                            errorStatus(400, HttpError(400)), EmailInUseMsg)
            /\ UNCHANGED <<users, nextUser>>
       ELSE IF ~uniqueEmail(newUser(reg[s]))
         THEN /\ ureply' = AuthFailure("register",
                             errorStatus(200, [name |-> "MongoServerError",
                                               code |-> DuplicateKeyCode]),
                             DuplicateValueMsg)
              /\ UNCHANGED <<users, nextUser>>
         ELSE /\ users' = [users EXCEPT ![nextUser] = newUser(reg[s])]
              /\ nextUser' = nextUser + 1
              /\ ureply' = AuthSuccess("register", 201, nextUser, publicFields)

\* login: validationResult, User.findOne(...).select('+password'),
\* matchPassword, the cookie and the reply
login_tellsApart(email, password) ==
  /\ UNCHANGED <<users, nextUser, reg>>
  /\ IF ~loginValidator(email, password)
       THEN ureply' = AuthFailure("login", 400, ValidationMsg)
       ELSE LET id == findOne(email)
            IN IF id = 0
                 THEN ureply' = AuthFailure("login",
                                  errorStatus(404, HttpError(404)), UserNotFoundMsg)
                 ELSE IF ~matchPassword(password, users[id].password)
                   THEN ureply' = AuthFailure("login",
                                    errorStatus(401, HttpError(401)), InvalidLoginMsg)
                   ELSE ureply' = AuthSuccess("login", 200, id, publicFields)
login(email, password) ==
  /\ UNCHANGED <<users, nextUser, reg>>
  /\ IF ~loginValidator(email, password)
       THEN ureply' = AuthFailure("login", 400, ValidationMsg)
       ELSE LET id == findOne(email)
            IN IF id = 0 \/ ~matchPassword(password, users[id].password)
                 THEN ureply' = AuthFailure("login",
                                  errorStatus(401, HttpError(401)), InvalidLoginMsg)
                 ELSE ureply' = AuthSuccess("login", 200, id, publicFields)

\* logout: the jwt cookie is set to the empty string with an expiry in the
\* past, the reply; user is the user whose cookie the reply clears
logout ==
  /\ web.pc = "handler"
  /\ web.route = "auth.logout"
  /\ web' = [web EXCEPT !.pc = "done", !.handlerRan = TRUE, !.code = 200,
               !.body = {"message"}]
  /\ ureply' = [NoAuthReply EXCEPT !.op = "logout", !.code = 200,
                  !.body = {"message"}, !.user = web.token.userId]
  /\ UNCHANGED <<users, now, clients, nextClient, reg, nextUser>>

\* ------------------------------------------- invoices, clients, children
\* (controllers/invoiceController.js createInvoice, updateInvoice and
\* deleteInvoice on the fields of the Invoice document that identify it,
\* controllers/clientController.js deleteClient)
DocIds == 1..MaxDocs
InvSlots == 1..NumInvSlots
\* an invoice number as a request writes it: its text (0 is the empty
\* string) and whether it comes with surrounding blanks
Number(text, padded) == [text |-> text, padded |-> padded]
NoNumber == Number(0, FALSE)
NumberInputs ==
  {Number(n, b) : n \in 1..MaxNumbers, b \in BOOLEAN} \cup {NoNumber}
\* .trim() of the validators, trim: true of invoiceSchema.invoiceNumber
trim(number) == Number(number.text, FALSE)
\* client ids a request may carry: malformed, of a client, of no client
ClientInputs == {MalformedId} \cup (1..(MaxClients + 1))

NoInvoice ==
  [exists |-> FALSE, invoiceNumber |-> NoNumber, client |-> 0, amount |-> 0,
   amountPaid |-> 0, status |-> "unpaid"]
\* Invoice.create({ invoiceNumber, client, amount, dueDate, createdBy }):
\* amountPaid and status take the schema defaults
InvoiceDoc(invoiceNumber, client, amount) ==
  [exists |-> TRUE, invoiceNumber |-> trim(invoiceNumber), client |-> client,
   amount |-> amount, amountPaid |-> 0, status |-> "unpaid"]

\* replies of the invoice and client handlers
NoInvReply == [op |-> "none", code |-> 0, msg |-> ""]
InvReply(op, code, msg) == [op |-> op, code |-> code, msg |-> msg]
ClientNotFoundMsg == "Client not found"
NumberInUseMsg == "Invoice number already exists"
DuplicateNumberMsg == "Duplicate value for field: invoiceNumber"
InvoiceNotFoundMsg == "Invoice not found"

\* createInvoiceValidator: invoiceNumber not empty, client a MongoId,
\* amount a float >= 0
createInvoiceValidator(invoiceNumber, client, amount) ==
  /\ invoiceNumber # NoNumber
  /\ client # MalformedId
  /\ amount >= 0

\* Invoice.findOne({ invoiceNumber })
findOneInvoice(invoiceNumber) ==
  \E d \in DocIds :
    invoiceDocs[d].exists /\ invoiceDocs[d].invoiceNumber = trim(invoiceNumber)

\* the unique index on invoiceNumber, as the insert or update of document d
\* meets it
uniqueNumber_noIndex(d, invoiceNumber) == TRUE
uniqueNumber(d, invoiceNumber) ==
  \A e \in DocIds \ {d} :
    invoiceDocs[e].exists => invoiceDocs[e].invoiceNumber # trim(invoiceNumber)

IdleInv ==
  [pc |-> "idle", invoiceNumber |-> NoNumber, client |-> 0, amount |-> 0,
   status |-> NoStatus, amountPaid |-> NoAmount, found |-> FALSE]
PendingInv == {s \in InvSlots : creq[s].pc # "idle"}

\* createInvoice up to Client.findById: validationResult, the fields read
\* from the body, the query; status and amountPaid are what the body holds
\* besides
createInvoiceStart(s, invoiceNumber, client, amount, status, amountPaid) ==
  /\ creq[s].pc = "idle"
  /\ nextDoc + Cardinality(PendingInv) <= MaxDocs
  /\ IF ~createInvoiceValidator(invoiceNumber, client, amount)
       THEN /\ ireply' = InvReply("createInvoice",
                            errorStatus(400, PlainError), ValidationMsg)
            /\ UNCHANGED creq
       ELSE /\ creq' = [creq EXCEPT ![s] =
                         [pc |-> "client", invoiceNumber |-> trim(invoiceNumber),
                          client |-> client, amount |-> amount,
                          status |-> status, amountPaid |-> amountPaid,
                          found |-> client \in clients]]
            /\ UNCHANGED ireply
  /\ UNCHANGED <<invoiceDocs, nextDoc, recoveryActions, renum, clients, payments>>

\* createInvoice after Client.findById: the client check, Invoice.findOne
createInvoiceFindOne(s) ==
  /\ creq[s].pc = "client"
  /\ IF ~creq[s].found
       THEN /\ ireply' = InvReply("createInvoice",
                            errorStatus(404, PlainError), ClientNotFoundMsg)
            /\ creq' = [creq EXCEPT ![s] = IdleInv]
       ELSE /\ creq' = [creq EXCEPT ![s].pc = "number",
                                  ![s].found = findOneInvoice(creq[s].invoiceNumber)]
            /\ UNCHANGED ireply
  /\ UNCHANGED <<invoiceDocs, nextDoc, recoveryActions, renum, clients, payments>>

\* createInvoice after Invoice.findOne: the duplicate check, Invoice.create,
\* the reply
createInvoiceCreate(s) ==
  /\ creq[s].pc = "number"
  /\ creq' = [creq EXCEPT ![s] = IdleInv]
  /\ IF creq[s].found
       THEN /\ ireply' = InvReply("createInvoice",
                            errorStatus(400, PlainError), NumberInUseMsg)
            /\ UNCHANGED <<invoiceDocs, nextDoc>>
       ELSE IF ~uniqueNumber(nextDoc, creq[s].invoiceNumber)
         THEN /\ ireply' = InvReply("createInvoice",
                             errorStatus(200, [name |-> "MongoServerError",
                                               code |-> DuplicateKeyCode]),
                             DuplicateNumberMsg)
              /\ UNCHANGED <<invoiceDocs, nextDoc>>
         ELSE /\ invoiceDocs' = [invoiceDocs EXCEPT ![nextDoc] =
                   InvoiceDoc(creq[s].invoiceNumber, creq[s].client, creq[s].amount)]
              /\ nextDoc' = nextDoc + 1
              /\ ireply' = InvReply("createInvoice", 201, "")
  /\ UNCHANGED <<recoveryActions, renum, clients, payments>>

IdleRenum == [pc |-> "idle", id |-> 0, invoiceNumber |-> NoNumber, was |-> NoNumber]

\* updateInvoice with a body that holds invoiceNumber only, up to
\* Invoice.findById
updateInvoiceFind(id, invoiceNumber) ==
  /\ renum.pc = "idle"
  /\ IF ~invoiceDocs[id].exists
       THEN /\ ireply' = InvReply("updateInvoice",
                            errorStatus(404, PlainError), InvoiceNotFoundMsg)
            /\ UNCHANGED renum
       ELSE /\ renum' = [pc |-> "found", id |-> id,
                         invoiceNumber |-> trim(invoiceNumber),
                         was |-> invoiceDocs[id].invoiceNumber]
            /\ UNCHANGED ireply
  /\ UNCHANGED <<invoiceDocs, nextDoc, recoveryActions, creq, clients, payments>>

\* updateInvoice after Invoice.findById: if (invoiceNumber) the assignment,
\* invoice.save() of the path if it was modified, the reply
updateInvoiceSave ==
  /\ renum.pc = "found"
  /\ renum' = IdleRenum
  /\ LET modified == renum.invoiceNumber # NoNumber
                       /\ renum.invoiceNumber # renum.was
     IN IF ~invoiceDocs[renum.id].exists
          THEN /\ ireply' = InvReply("updateInvoice",
                               errorStatus(200, DocumentNotFoundError),
                               StoreFailureMsg)
               /\ UNCHANGED invoiceDocs
          ELSE IF modified /\ ~uniqueNumber(renum.id, renum.invoiceNumber)
            THEN /\ ireply' = InvReply("updateInvoice",
                                errorStatus(200, [name |-> "MongoServerError",
                                                  code |-> DuplicateKeyCode]),
                                DuplicateNumberMsg)
                 /\ UNCHANGED invoiceDocs
            ELSE /\ invoiceDocs' = [invoiceDocs EXCEPT ![renum.id].invoiceNumber =
                      IF modified THEN renum.invoiceNumber ELSE @]
                 /\ ireply' = InvReply("updateInvoice", 200, "")
  /\ UNCHANGED <<nextDoc, recoveryActions, creq, clients, payments>>

\* deleteInvoice: Invoice.findById, invoice.deleteOne()
deleteInvoiceDoc(id) ==
  /\ IF ~invoiceDocs[id].exists
       THEN /\ ireply' = InvReply("deleteInvoice",
                            errorStatus(404, PlainError), InvoiceNotFoundMsg)
            /\ UNCHANGED invoiceDocs
       ELSE /\ invoiceDocs' = [invoiceDocs EXCEPT ![id] = NoInvoice]
            /\ ireply' = InvReply("deleteInvoice", 200, "")
  /\ UNCHANGED <<nextDoc, recoveryActions, creq, renum, clients, payments>>

\* deleteClient removing the invoices of the client with it
deleteClient_cascade(client) ==
  /\ IF client \notin clients
       THEN /\ ireply' = InvReply("deleteClient",
                            errorStatus(404, PlainError), ClientNotFoundMsg)
            /\ UNCHANGED <<clients, invoiceDocs>>
       ELSE /\ clients' = clients \ {client}
            /\ invoiceDocs' = [d \in DocIds |->
                 IF invoiceDocs[d].client = client THEN NoInvoice
                 ELSE invoiceDocs[d]]
            /\ ireply' = InvReply("deleteClient", 200, "")
  /\ UNCHANGED <<nextDoc, recoveryActions, creq, renum, payments>>
\* deleteClient: Client.findById, client.deleteOne()
deleteClient(client) ==
  /\ IF client \notin clients
       THEN /\ ireply' = InvReply("deleteClient",
                            errorStatus(404, PlainError), ClientNotFoundMsg)
            /\ UNCHANGED clients
       ELSE /\ clients' = clients \ {client}
            /\ ireply' = InvReply("deleteClient", 200, "")
  /\ UNCHANGED <<invoiceDocs, nextDoc, recoveryActions, creq, renum, payments>>

\* ------------------------------------------------------- specification
PayInit ==
  /\ invoices = [i \in InvoiceIds |-> NoDoc]
  /\ payments = <<>>
  /\ nextInvoice = 1
  /\ pay = [p \in PaySlots |-> IdlePay]
  /\ upd = IdleUpd
  /\ ops = 0
  /\ reply = NoReply

\* the user store holds any registered users, no request is in flight
AuthInit ==
  /\ users \in {f \in [UserIds -> {NoUser} \cup
                     {UserDoc(r, Email(u, FALSE), hash(SeedPassword)) :
                        r \in Roles, u \in UserIds}] :
                  \A u \in UserIds : f[u].exists => f[u].email.local = u}
  /\ now = 0
  /\ web = IdleWeb
  /\ clients = {}
  /\ nextClient = 1
  /\ reg = [s \in RegSlots |-> IdleReg]
  /\ ureply = NoAuthReply
  /\ nextUser = NumUsers + 1

\* the user store of the reconciliation runs: every user registered
AuthQuiet ==
  /\ users = [u \in UserIds |->
                UserDoc("agent", Email(u, FALSE), hash(SeedPassword))]
  /\ now = 0
  /\ web = IdleWeb
  /\ clients = {}
  /\ nextClient = 1
  /\ reg = [s \in RegSlots |-> IdleReg]
  /\ ureply = NoAuthReply
  /\ nextUser = NumUsers + 1

PayStartAny ==
  \E p \in PaySlots, i \in InvoiceIds \cup {MalformedId}, a \in 0..MaxAmount,
     m \in Methods \cup {BadMethod}, n \in NoteLens : PayStart(p, i, a, m, n)
PayCreateAny == \E p \in PaySlots : PayCreate(p)
PaySaveAny == \E p \in PaySlots : PaySave(p)
createInvoiceAny == \E a \in 0..MaxAmount : createInvoice(a)
UpdStartAny ==
  \E i \in InvoiceIds, a \in {NoAmount} \cup (0..MaxAmount),
     s \in {NoStatus} \cup Statuses : UpdStart(i, a, s)
deleteInvoiceAny == \E i \in InvoiceIds : deleteInvoice(i)
\* the requests on a set of routes: the route and its :id, which only
\* PUT and DELETE /api/users/:id read
RequestsOn(routes) ==
  {<<r, 0>> : r \in routes \ {"users.update", "users.delete"}}
    \cup {<<r, x>> : r \in routes \cap {"users.update", "users.delete"},
                     x \in UserIds}
\* one route of each kind of gate, for the runs that vary the cookie
PipelineRoutes == {"auth.me", "clients.create", "stats.read", "users.delete"}
\* the routes of a session and the one that ends the life of a user
SessionRoutes == {"auth.me", "auth.logout", "users.delete"}
\* the auth router on an empty user store
UserInit ==
  /\ users = [u \in UserIds |-> NoUser]
  /\ now = 0
  /\ web = IdleWeb
  /\ clients = {}
  /\ nextClient = 1
  /\ reg = [s \in RegSlots |-> IdleReg]
  /\ ureply = NoAuthReply
  /\ nextUser = 1

RegStartAny ==
  \E s \in RegSlots, nameOk \in BOOLEAN, e \in EmailInputs,
     p \in RegisterPasswords, r \in RegisterRoles : RegStart(s, nameOk, e, p, r)
RegSaveAny == \E s \in RegSlots : RegSave(s)
loginAny == \E e \in EmailInputs, p \in LoginPasswords : login(e, p)
\* GET /api/auth/me with the cookie the last register or login set
protectSession ==
  /\ ureply.cookie # 0
  /\ protect(generateToken(ureply.cookie), "auth.me", 0)
protectAny ==
  \E t \in Tokens, q \in RequestsOn(PipelineRoutes) : protect(t, q[1], q[2])
\* a request with the cookie generateToken set for a user, before it expires
protectLive ==
  \E u \in UserIds, q \in RequestsOn(Routes) :
    protect(generateToken(u), q[1], q[2])
createClientAny == \E valid \in BOOLEAN : createClient(valid)
\* a request with any cookie on a route of a session
protectCookie ==
  \E t \in Tokens, q \in RequestsOn(SessionRoutes) : protect(t, q[1], q[2])
updateUserFindAny ==
  \E r \in {NoRole, BadRole} \cup Roles : updateUserFind(r)

\* no invoice document, no recovery action, no invoice request in flight
InvQuiet ==
  /\ invoiceDocs = [d \in DocIds |-> NoInvoice]
  /\ nextDoc = 1
  /\ recoveryActions = <<>>
  /\ creq = [s \in InvSlots |-> IdleInv]
  /\ renum = IdleRenum
  /\ ireply = NoInvReply

vars ==
  <<invoices, payments, nextInvoice, pay, upd, ops, reply, users, now, web,
    clients, nextClient, reg, ureply, nextUser, invoiceDocs, nextDoc,
    recoveryActions, creq, renum, ireply>>

Init == PayInit /\ AuthQuiet /\ InvQuiet

Next ==
  \/ PayStartAny /\ UNCHANGED <<authVars, regVars, invVars>>
  \/ PayCreateAny /\ UNCHANGED <<authVars, regVars, invVars>>
  \/ PaySaveAny /\ UNCHANGED <<authVars, regVars, invVars>>
  \/ createInvoiceAny /\ UNCHANGED <<authVars, regVars, invVars>>
  \/ UpdStartAny /\ UNCHANGED <<authVars, regVars, invVars>>
  \/ UpdSave /\ UNCHANGED <<authVars, regVars, invVars>>
  \/ deleteInvoiceAny /\ UNCHANGED <<authVars, regVars, invVars>>

\* the reconciliation engine: invoices, payments and their requests
Spec == Init /\ [][Next]_vars

AuthNext ==
  \/ protectAny /\ UNCHANGED <<payVars, regVars, invVars>>
  \/ protectResolve /\ UNCHANGED <<payVars, regVars, invVars>>
  \/ protectFault /\ UNCHANGED <<payVars, regVars, invVars>>
  \/ getMe /\ UNCHANGED <<payVars, regVars, invVars>>
  \/ createClientAny /\ UNCHANGED <<payVars, regVars, invVars>>
  \/ deleteUserFind /\ UNCHANGED <<payVars, regVars, invVars>>
  \/ deleteUserRemove /\ UNCHANGED <<payVars, regVars, invVars>>
  \/ routeHandler /\ UNCHANGED <<payVars, regVars, invVars>>
  \/ handlerFault /\ UNCHANGED <<payVars, regVars, invVars>>
  \/ Tick /\ UNCHANGED <<payVars, regVars, invVars>>

\* the authentication middleware in front of a route
AuthSpecInit == PayInit /\ AuthInit /\ InvQuiet

AuthSpec == AuthSpecInit /\ [][AuthNext]_vars

UserNext ==
  \/ RegStartAny /\ UNCHANGED <<payVars, now, web, clients, nextClient, invVars>>
  \/ RegSaveAny /\ UNCHANGED <<payVars, now, web, clients, nextClient, invVars>>
  \/ loginAny /\ UNCHANGED <<payVars, now, web, clients, nextClient, invVars>>
  \/ protectSession /\ UNCHANGED <<payVars, regVars, invVars>>
  \/ protectResolve /\ UNCHANGED <<payVars, regVars, invVars>>
  \/ getMe /\ UNCHANGED <<payVars, regVars, invVars>>

\* the auth router: register, login and the profile of the session
UserSpecInit == PayInit /\ UserInit /\ InvQuiet

UserSpec == UserSpecInit /\ [][UserNext]_vars

GateNext ==
  \/ protectLive /\ UNCHANGED <<payVars, regVars, invVars>>
  \/ protectResolve /\ UNCHANGED <<payVars, regVars, invVars>>
  \/ getMe /\ UNCHANGED <<payVars, regVars, invVars>>
  \/ logout /\ UNCHANGED <<payVars, invVars>>
  \/ createClientAny /\ UNCHANGED <<payVars, regVars, invVars>>
  \/ updateUserFindAny /\ UNCHANGED <<payVars, regVars, invVars>>
  \/ updateUserSave /\ UNCHANGED <<payVars, regVars, invVars>>
  \/ deleteUserFind /\ UNCHANGED <<payVars, regVars, invVars>>
  \/ deleteUserRemove /\ UNCHANGED <<payVars, regVars, invVars>>
  \/ routeHandler /\ UNCHANGED <<payVars, regVars, invVars>>

\* the role gates of every route, for requests with a live cookie
GateSpecInit == PayInit /\ AuthInit /\ InvQuiet

GateSpec == GateSpecInit /\ [][GateNext]_vars

\* the user store with the roles the cookies were set under
RoleInit ==
  /\ users = [u \in UserIds |->
                UserDoc(IssuedRole(u), Email(u, FALSE), hash(SeedPassword))]
  /\ now = 0
  /\ web = IdleWeb
  /\ clients = {}
  /\ nextClient = 1
  /\ reg = [s \in RegSlots |-> IdleReg]
  /\ ureply = NoAuthReply
  /\ nextUser = NumUsers + 1

\* the role gates while an admin changes the roles of the users
RoleSpecInit == PayInit /\ RoleInit /\ InvQuiet

RoleSpec == RoleSpecInit /\ [][GateNext]_vars

SessionNext ==
  \/ protectCookie /\ UNCHANGED <<payVars, regVars, invVars>>
  \/ protectResolve /\ UNCHANGED <<payVars, regVars, invVars>>
  \/ getMe /\ UNCHANGED <<payVars, regVars, invVars>>
  \/ logout /\ UNCHANGED <<payVars, invVars>>
  \/ deleteUserFind /\ UNCHANGED <<payVars, regVars, invVars>>
  \/ deleteUserRemove /\ UNCHANGED <<payVars, regVars, invVars>>
  \/ Tick /\ UNCHANGED <<payVars, regVars, invVars>>

\* sessions: cookies of any kind, logout, the passing of time and the
\* deletion of users
SessionSpec == RoleSpecInit /\ [][SessionNext]_vars

\* one invoice of the first client, partly paid by one payment, with one
\* recovery action; every client created; no request in flight
InvoiceInit ==
  /\ invoiceDocs = [d \in DocIds |->
       IF d = 1 THEN [InvoiceDoc(Number(1, FALSE), 1, 2) EXCEPT
                        !.amountPaid = 1, !.status = "partially_paid"]
       ELSE NoInvoice]
  /\ nextDoc = 2
  /\ recoveryActions = <<[invoice |-> 1, client |-> 1, actionType |-> "email"]>>
  /\ creq = [s \in InvSlots |-> IdleInv]
  /\ renum = IdleRenum
  /\ ireply = NoInvReply
  /\ invoices = [i \in InvoiceIds |-> NoDoc]
  /\ payments = <<[invoice |-> 1, amount |-> 1, method |-> "cash"]>>
  /\ nextInvoice = 1
  /\ pay = [p \in PaySlots |-> IdlePay]
  /\ upd = IdleUpd
  /\ ops = 0
  /\ reply = NoReply
  /\ users = [u \in UserIds |->
                UserDoc("agent", Email(u, FALSE), hash(SeedPassword))]
  /\ now = 0
  /\ web = IdleWeb
  /\ clients = 1..MaxClients
  /\ nextClient = MaxClients + 1
  /\ reg = [s \in RegSlots |-> IdleReg]
  /\ ureply = NoAuthReply
  /\ nextUser = NumUsers + 1

createInvoiceStartAny ==
  \E s \in InvSlots, n \in NumberInputs, c \in ClientInputs,
     a \in {NoAmount, 1}, x \in {<<NoStatus, NoAmount>>, <<"paid", 1>>} :
    createInvoiceStart(s, n, c, a, x[1], x[2])
createInvoiceFindOneAny == \E s \in InvSlots : createInvoiceFindOne(s)
createInvoiceCreateAny == \E s \in InvSlots : createInvoiceCreate(s)
updateInvoiceFindAny ==
  \E d \in DocIds, n \in NumberInputs : updateInvoiceFind(d, n)
deleteInvoiceDocAny == \E d \in DocIds : deleteInvoiceDoc(d)
deleteClientAny == \E c \in 1..(MaxClients + 1) : deleteClient(c)
\* what the invoice and client handlers leave alone
invFrame ==
  <<invoices, nextInvoice, pay, upd, ops, reply, users, now, web, nextClient,
    reg, ureply, nextUser>>

InvoiceNext ==
  \/ createInvoiceStartAny /\ UNCHANGED invFrame
  \/ createInvoiceFindOneAny /\ UNCHANGED invFrame
  \/ createInvoiceCreateAny /\ UNCHANGED invFrame
  \/ updateInvoiceFindAny /\ UNCHANGED invFrame
  \/ updateInvoiceSave /\ UNCHANGED invFrame
  \/ deleteInvoiceDocAny /\ UNCHANGED invFrame
  \/ deleteClientAny /\ UNCHANGED invFrame

\* the invoice and client controllers on the identity of an invoice
InvoiceSpec == InvoiceInit /\ [][InvoiceNext]_vars

\* ------------------------------------------------------------ the ledger
RECURSIVE SumFor(_, _)
\* sum of the amounts of the Payment records of ps that reference invoice i
SumFor(ps, i) ==
  IF ps = <<>> THEN 0
  ELSE (IF Head(ps).invoice = i THEN Head(ps).amount ELSE 0) + SumFor(Tail(ps), i)

\* request p ends in this step
Ends(p) == pay[p].pc # "idle" /\ pay'[p].pc = "idle"
\* request p leaves the checks on the invoice it read in this step
Checked(p) == pay[p].pc = "found" /\ pay'[p].pc # "found"
\* request p ends in this step with its invoice.save() done
Saved(p) == pay[p].pc = "created" /\ pay'[p].pc = "idle" /\ reply'.code = 201
\* the remaining balance of the invoice as request p read it
Remaining(p) == pay[p].snap.amount - pay[p].snap.amountPaid

\* C1: for every invoice, in every reachable state, 0 <= amountPaid <= amount
C1_PaidWithinAmount ==
  \A i \in InvoiceIds :
    invoices[i].exists =>
      0 <= invoices[i].amountPaid /\ invoices[i].amountPaid <= invoices[i].amount

\* C2: payments on one invoice are serialized: a payment that succeeds was
\* validated against the balance that is current when it is written, so it
\* fits the remaining balance of the stored invoice at its write
C2_Serialized ==
  [][\A p \in PaySlots :
       (Saved(p) /\ invoices[pay[p].req.invoice].amount = pay[p].snap.amount) =>
         /\ invoices[pay[p].req.invoice].amountPaid = pay[p].snap.amountPaid
         /\ pay[p].req.amount <=
              invoices[pay[p].req.invoice].amount
                - invoices[pay[p].req.invoice].amountPaid]_vars

\* C3: for every invoice, the amounts of the Payment records that reference
\* it sum to at most the invoice's amount
C3_LedgerWithinAmount ==
  \A i \in InvoiceIds :
    invoices[i].exists => SumFor(payments, i) <= invoices[i].amount

\* C4: createPayment is all-or-nothing: when a request ends, either it
\* replied 201 with its Payment in the ledger and the invoice updated, or it
\* failed and inserted no Payment
C4_AllOrNothing ==
  [][\A p \in PaySlots :
       Ends(p) =>
         \/ /\ reply'.code = 201
            /\ pay[p].payId # 0
            /\ invoices'[pay[p].req.invoice].amountPaid
                 = pay[p].snap.amountPaid + pay[p].req.amount
         \/ /\ reply'.code # 201
            /\ pay[p].payId = 0
            /\ invoices' = invoices]_vars

\* C5: a payment of a > 0 on an existing invoice that is not paid and whose
\* remaining balance is >= a succeeds: one new Payment of amount a is
\* inserted, amountPaid grows by a, the status becomes paid iff amountPaid
\* reaches amount and partially_paid otherwise, and the reply carries the new
\* remaining balance
C5_PaymentApplied ==
  [][\A p \in PaySlots :
       /\ (Checked(p) /\ pay[p].snap.exists /\ pay[p].snap.status # "paid"
             /\ pay[p].req.amount <= Remaining(p)) =>
            /\ pay'[p].pc = "created"
            /\ Len(payments') = Len(payments) + 1
            /\ payments'[Len(payments')].amount = pay[p].req.amount
            /\ payments'[Len(payments')].invoice = pay[p].req.invoice
       /\ (pay[p].pc = "created" /\ pay'[p].pc = "idle"
             /\ invoices[pay[p].req.invoice] = pay[p].snap) =>
            LET old == invoices[pay[p].req.invoice]
                new == invoices'[pay[p].req.invoice]
            IN /\ reply'.code = 201
               /\ new.amountPaid = old.amountPaid + pay[p].req.amount
               /\ new.amount = old.amount
               /\ new.status = (IF new.amountPaid = new.amount
                                  THEN "paid" ELSE "partially_paid")
               /\ reply'.status = new.status
               /\ reply'.balance = new.amount - new.amountPaid
               /\ payments' = payments]_vars

\* C6: a payment that passed the earlier checks (valid request, invoice
\* found, invoice not paid) and whose amount exceeds the remaining balance
\* is rejected with ExceedsBalance, HTTP 400, reporting that balance; the
\* invoice and the ledger stay as they are
C6_ExceedsBalance ==
  [][\A p \in PaySlots :
       (Checked(p) /\ pay[p].snap.exists /\ pay[p].snap.status # "paid"
          /\ pay[p].req.amount > Remaining(p)) =>
         /\ pay'[p].pc = "idle"
         /\ reply'.req = pay[p].req
         /\ reply'.code = 400
         /\ reply'.errs = <<"ExceedsBalance">>
         /\ reply'.balance = Remaining(p)
         /\ invoices' = invoices
         /\ payments' = payments]_vars

\* a payment was rejected with ExceedsBalance and a positive balance reported
C6_Witness ==
  /\ reply.errs = <<"ExceedsBalance">>
  /\ reply.balance > 0
  /\ reply.req.amount > reply.balance

C8_StatusConsistent ==
  \A i \in InvoiceIds :
    invoices[i].exists =>
      /\ invoices[i].status = "paid" =>
           invoices[i].amountPaid >= invoices[i].amount
      /\ invoices[i].status = "partially_paid" =>
           0 < invoices[i].amountPaid /\ invoices[i].amountPaid < invoices[i].amount
      /\ invoices[i].status = "unpaid" => invoices[i].amountPaid = 0

FailedFields(req) ==
  (IF req.invoice = MalformedId THEN <<"InvalidInvoiceId">> ELSE <<>>)
  \o (IF req.amount <= 0 THEN <<"InvalidAmount">> ELSE <<>>)
  \o (IF req.method \notin {"cash", "check", "transfer"} THEN <<"InvalidMethod">> ELSE <<>>)
  \o (IF req.note > 500 THEN <<"InvalidNote">> ELSE <<>>)

BadCookie(token, time) ==
  \/ token.kind # "jwt"
  \/ ~token.signed
  \/ token.exp <= time

\* C10: a request on a protect-guarded route whose cookie is absent,
\* malformed, expired or wrongly signed is answered 401, gets no identity
\* attached and never reaches the route handler
C10_Unauthenticated401 ==
  (web.pc = "done" /\ BadCookie(web.token, web.at)) =>
    /\ web.code = 401
    /\ ~web.user.exists
    /\ ~web.handlerRan

\* the request in the pipeline is being answered by this step
Answered == web.pc # "done" /\ web'.pc = "done"

\* protect has just resolved the token of the request to a user whose role
\* is not among the roles its route declares
RoleRefused ==
  /\ web.pc = "protect"
  /\ web'.pc # "protect"
  /\ ~web'.fault
  /\ findUser(web.token.userId).exists
  /\ web.route \notin OpenRoutes
  /\ findUser(web.token.userId).role \notin authorizeRoles(web.route)

\* C11: an authenticated request whose user's role is not in the role set
\* declared for the operation is answered 403 and creates, modifies and
\* deletes no record
C11_Forbidden403 ==
  [][RoleRefused =>
       /\ Answered
       /\ web'.code = 403
       /\ ~web'.handlerRan
       /\ UNCHANGED <<users, clients, nextClient>>]_vars

\* C12: the role check and the handler run only for a request on which
\* protect has attached a resolved user; a request on a gated route with no
\* attached user is answered 401, never 403
C12_AuthorizeAfterProtect ==
  /\ web.authz # "noUser"
  /\ (web.authz # "none" \/ web.handlerRan \/ web.pc \in {"handler", "deleteOne"})
       => web.user.exists
  /\ (web.pc = "done" /\ ~web.user.exists /\ ~web.fault
        /\ web.route \notin OpenRoutes) => web.code = 401

\* the rule table of the design, by role, for the operations it lists
DesignRoles(route) ==
  IF route \in {"clients.read", "invoices.read", "payments.read", "recovery.read"}
    THEN {"agent", "manager", "admin"}
  ELSE IF route \in {"clients.create", "clients.update", "invoices.create",
                     "invoices.update", "payments.create", "recovery.create",
                     "recovery.update"}
    THEN {"agent", "manager"}
  ELSE IF route \in {"clients.delete", "invoices.delete", "recovery.delete"}
    THEN {"manager", "admin"}
  ELSE IF route = "stats.read" THEN {"manager", "admin"}
  ELSE {"admin"}
DesignRoutes == Routes \ {"auth.me", "auth.logout", "users.get"}

\* protect has just resolved the token of the request to a user
Resolved ==
  /\ web.pc = "protect"
  /\ web'.pc # "protect"
  /\ findUser(web.token.userId).exists

C14_DeletedUser401 ==
  [][(web.pc = "protect" /\ web'.pc # "protect" /\ ~web'.fault
        /\ ~findUser(web.token.userId).exists) =>
       /\ web'.pc = "done"
       /\ web'.code = 401
       /\ ~web'.handlerRan]_vars

\* deleteUser has read the user of its :id and found it
DeleteFound ==
  /\ web.pc = "handler"
  /\ web.route = "users.delete"
  /\ web'.pc # "handler"
  /\ ~web'.fault
  /\ findUser(web.target).exists

\* C15: deleteUser with the requesting admin's own id fails with the
\* own-account error (400) and keeps the record; with the id of another
\* existing user it removes that record and no other
C15_SelfDeletion ==
  [][/\ (DeleteFound /\ web.target = web.token.userId) =>
          /\ web'.pc = "done"
          /\ web'.code = 400
          /\ web'.msg = SelfDeletionMsg
          /\ users' = users
     /\ (DeleteFound /\ web.target # web.token.userId) =>
          /\ web'.pc = "deleteOne"
          /\ users' = users
     /\ (web.pc = "deleteOne" /\ web'.pc # "deleteOne" /\ ~web'.fault) =>
          /\ web.target # web.token.userId
          /\ users' = [users EXCEPT ![web.target] = NoUser]
          /\ web'.code = 200]_vars

\* an admin asked to delete their own account, was refused and is still there
C15_Witness ==
  /\ web.pc = "done"
  /\ web.route = "users.delete"
  /\ web.target = web.token.userId
  /\ web.user.role = "admin"
  /\ web.code = 400
  /\ users[web.target].exists

\* C20: a request under which the store failed is answered with the generic
\* 500 of a store failure, not with the error of a rejected request
C20_StoreFailure500 ==
  (web.pc = "done" /\ web.fault) =>
    /\ web.code = 500
    /\ web.msg = StoreFailureMsg

\* no two user records hold the same email compared without letter case
UniqueEmails ==
  \A u, v \in UserIds :
    (u # v /\ users[u].exists /\ users[v].exists)
      => toLowerCase(users[u].email) # toLowerCase(users[v].email)

\* a user record holds this email up to letter case
EmailTaken(email) ==
  \E u \in UserIds :
    users[u].exists /\ toLowerCase(users[u].email) = toLowerCase(email)

\* the register request of slot s is being answered by this step
RegEnds(s) == reg[s].pc = "found" /\ reg'[s].pc = "idle"

C17_RegisterRole ==
  [][\A s \in RegSlots :
       (RegEnds(s) /\ ureply'.code = 201) =>
         LET r == IF reg[s].role = NoRole THEN "agent" ELSE reg[s].role
         IN /\ users'[ureply'.user].role = r
            /\ ureply'.role = r]_vars

\* C18: a login with an email of no user and a login with the email of a
\* user but a wrong password get the same reply: 401, the same message, no
\* cookie
C18_LoginFailuresAlike ==
  [][\A e \in EmailInputs, p \in LoginPasswords :
       (login(e, p) /\ loginValidator(e, p)
          /\ (~EmailTaken(e) \/ ~matchPassword(p, users[findOne(e)].password)))
         => /\ ureply'.code = 401
            /\ ureply'.msg = InvalidLoginMsg
            /\ ureply'.cookie = 0
            /\ ureply'.body = {"message", "stack"}
            /\ ureply'.user = 0]_vars

\* a login was refused while a user is registered
C18_Witness ==
  /\ ureply.op = "login"
  /\ ureply.code = 401
  /\ \E u \in UserIds : users[u].exists

\* C19: the bodies of register, login and getMe and the identity protect
\* attaches never hold the password field
C19_NoPasswordInReplies ==
  /\ "password" \notin ureply.body
  /\ "password" \notin web.body
  /\ "password" \notin web.idFields

\* getMe answered the session of a registered user with its profile
C19_Witness ==
  /\ ureply.code \in {200, 201}
  /\ web.pc = "done"
  /\ web.handlerRan
  /\ "email" \in web.body
  /\ "email" \in web.idFields

\* C21: for a fixed invoice state, amount and note the outcome of
\* createPayment is the same for cash, check and transfer: the request is
\* accepted for all or rejected for all with the same reply, and the
\* resulting amountPaid, status and balance do not depend on the method
C21_MethodIndependent ==
  [][\A p \in PaySlots :
       Checked(p) =>
         \A m \in Methods :
           LET other == checkInvoice([pay[p] EXCEPT !.req.method = m])
           IN /\ pay'[p].pc = "created" <=> other = NoReply
              /\ pay'[p].pc = "idle" =>
                   /\ reply'.code = other.code
                   /\ reply'.errs = other.errs
                   /\ reply'.balance = other.balance]_vars

\* C22: createPayment never sets the status of an invoice to overdue, and a
\* successful payment on an invoice whose status is overdue leaves it paid
\* when amountPaid reaches amount and partially_paid otherwise
C22_OverdueSettles ==
  [][\A p \in PaySlots :
       Saved(p) =>
         LET i == pay[p].req.invoice
         IN /\ invoices[i].status # "overdue" => invoices'[i].status # "overdue"
            /\ invoices[i].status = "overdue" =>
                 invoices'[i].status =
                   (IF invoices'[i].amountPaid >= invoices'[i].amount
                      THEN "paid" ELSE "partially_paid")]_vars

\* C23: the payment ledger is append-only: every step keeps the Payment
\* records there are, field by field, and at most adds one at the end
C23_LedgerAppendOnly ==
  [][/\ Len(payments') >= Len(payments)
     /\ SubSeq(payments', 1, Len(payments)) = payments]_vars

\* the ledger holds two payments, the first one as it was written
C23_Witness ==
  /\ Len(payments) = 2
  /\ payments[1].amount > 0

\* C27: every successful createPayment adds its amount to the amountPaid the
\* invoice holds, so that amountPaid stays the sum of the payments of the
\* invoice, none lost and none counted twice, and never decreases
C27_PaidEqualsLedger ==
  [][\A p \in PaySlots :
       Saved(p) =>
         LET i == pay[p].req.invoice
         IN /\ invoices'[i].amountPaid = invoices[i].amountPaid + pay[p].req.amount
            /\ invoices'[i].amountPaid >= invoices[i].amountPaid]_vars

\* C30: an invoice whose amount is 0 accepts no payment: a createPayment
\* that reads it is rejected, and while its amount stays 0 no createPayment
\* writes to it or makes it paid
C30_ZeroAmountNoPayment ==
  [][\A p \in PaySlots :
       /\ (Checked(p) /\ pay[p].snap.exists /\ pay[p].snap.amount = 0) =>
            /\ pay'[p].pc = "idle"
            /\ reply'.code = 400
            /\ payments' = payments
       /\ (pay[p].pc = "created" /\ pay'[p].pc = "idle"
             /\ invoices[pay[p].req.invoice].exists
             /\ invoices[pay[p].req.invoice].amount = 0) =>
            invoices' = invoices]_vars

\* ------------------------------------------------- invoices and clients
\* request s ends in this step with its invoice inserted
Created(s) ==
  creq[s].pc = "number" /\ creq'[s].pc = "idle" /\ ireply'.code = 201
\* the invoice documents there are
Existing == {d \in DocIds : invoiceDocs[d].exists}

\* C24: every invoice createInvoice inserts starts unpaid with amountPaid 0
\* whatever status and amountPaid the body holds, and references a client
\* that exists when it is inserted; a request whose client was not found
\* is answered 404 and inserts nothing
C24_CreateInvoiceDefaults ==
  [][\A s \in InvSlots :
       /\ Created(s) =>
            /\ invoiceDocs'[nextDoc].exists
            /\ invoiceDocs'[nextDoc].status = "unpaid"
            /\ invoiceDocs'[nextDoc].amountPaid = 0
            /\ invoiceDocs'[nextDoc].client \in clients
       /\ (creq[s].pc = "client" /\ creq'[s].pc # "client" /\ ~creq[s].found) =>
            /\ ireply'.code = 404
            /\ creq'[s].pc = "idle"
            /\ invoiceDocs' = invoiceDocs]_vars

\* C25: no two invoices share an invoice number after any step, be it a
\* createInvoice, concurrent or not, or an updateInvoice that changes a
\* number; a createInvoice whose number is in use when it comes to insert
\* is answered 400 and inserts nothing
C25_UniqueInvoiceNumber ==
  [][/\ \A d, e \in DocIds :
          (d # e /\ invoiceDocs'[d].exists /\ invoiceDocs'[e].exists) =>
            invoiceDocs'[d].invoiceNumber # invoiceDocs'[e].invoiceNumber
     /\ \A s \in InvSlots :
          (creq[s].pc = "number" /\ creq'[s].pc = "idle"
             /\ findOneInvoice(creq[s].invoiceNumber)) =>
            /\ ireply'.code = 400
            /\ invoiceDocs' = invoiceDocs]_vars

\* a createInvoice that found its number free is about to insert while
\* another invoice has taken the number
C25_Witness ==
  \E s \in InvSlots :
    /\ creq[s].pc = "number"
    /\ ~creq[s].found
    /\ findOneInvoice(creq[s].invoiceNumber)

\* C26: a step that deletes a client leaves every invoice and every
\* recovery action as it was, and a step that deletes an invoice leaves
\* every payment and every recovery action as it was
C26_DeleteLeavesChildren ==
  [][/\ (\E c \in clients : c \notin clients') =>
          /\ invoiceDocs' = invoiceDocs
          /\ recoveryActions' = recoveryActions
          /\ payments' = payments
     /\ (\E d \in DocIds : invoiceDocs[d].exists /\ ~invoiceDocs'[d].exists) =>
          /\ payments' = payments
          /\ recoveryActions' = recoveryActions]_vars

\* the first invoice is deleted, its payment and its recovery action are
\* there; another invoice is there whose client is deleted
C26_Witness ==
  /\ ~invoiceDocs[1].exists
  /\ \E k \in 1..Len(payments) : payments[k].invoice = 1
  /\ \E k \in 1..Len(recoveryActions) :
       recoveryActions[k].invoice = 1 /\ recoveryActions[k].client \notin clients
  /\ \E d \in DocIds :
       invoiceDocs[d].exists /\ invoiceDocs[d].client \notin clients

\* --------------------------------------------------- roles and sessions
\* C28: the gate of a route decides by the role the user store holds when
\* the request arrives: req.user carries that role, and the request reaches
\* its handler exactly when that role is one the route admits, whatever the
\* role of the user was when the cookie was set
C28_StoredRoleDecides ==
  [][(Resolved /\ web.route \notin OpenRoutes) =>
       /\ web'.user.role = users[web.token.userId].role
       /\ web'.pc = "handler"
            <=> users[web.token.userId].role \in authorizeRoles(web.route)
       /\ web'.pc # "handler" => (web'.pc = "done" /\ ~web'.handlerRan)]_vars

\* a user whose role updateUser has changed is let through, with the
\* cookie set before, on a route the former role is not admitted to
C28_Witness ==
  \E u \in UserIds :
    /\ users[u].exists
    /\ users[u].role # IssuedRole(u)
    /\ web.token = generateToken(u)
    /\ web.route \notin OpenRoutes
    /\ IssuedRole(u) \notin authorizeRoles(web.route)
    /\ web.authz = "next"
    /\ web.user.role = users[u].role

\* C29: logout changes nothing in the store, and protect accepts a cookie
\* exactly when its token verifies and its user exists, whether or not a
\* logout has answered that user before
C29_LogoutKeepsToken ==
  [][/\ (web.route = "auth.logout" /\ web.pc = "handler" /\ web'.pc = "done") =>
          UNCHANGED <<users, clients, invoices, payments, invoiceDocs,
                      recoveryActions>>
     /\ (web.pc \in {"idle", "done"} /\ web' # web) =>
          (web'.pc = "protect" <=> verify(web'.token, now))
     /\ (web.pc = "protect" /\ web'.pc # "protect" /\ web.route \in OpenRoutes) =>
          (web'.pc = "handler" <=> findUser(web.token.userId).exists)]_vars

\* after a logout of a user, getMe has answered a request that carries the
\* cookie of that user
C29_Witness ==
  /\ ureply.op = "logout"
  /\ web.token = generateToken(ureply.user)
  /\ web.route = "auth.me"
  /\ web.pc = "done"
  /\ web.handlerRan
  /\ web.code = 200

====
